---- MODULE Spec2Model ----
(***************************************************************************)
(* Startup sequence of the OmnioSearch frontend (src/src/main.tsx).        *)
(*                                                                         *)
(* The module body of main.tsx is one synchronous task: host-bridge        *)
(* detection, the conditional init_app dispatch with its catch handler,    *)
(* createRoot, render, and the registration of three listeners.  The host  *)
(* (backend, event loop, user) acts around it: the backend answers the     *)
(* init_app call, the event loop runs the promise reaction and dispatches  *)
(* error / unhandledrejection / contextmenu events once the task is over.  *)
(***************************************************************************)
EXTENDS Integers, Sequences, FiniteSets, TLC

\* ---------------------------------------------------------------- bounds
MaxEvents == 3   \* events the host dispatches plus rejections still queued
NumErrors == 2   \* distinct error / rejection values

ErrorValues == {<<"Error", i>> : i \in 1..NumErrors}
None == <<>>     \* an event field that the event type does not carry
\* what ReactDOM.createRoot throws when its container is not an element
MountError == <<"Error", 0>>

\* ------------------------------------------------------------ environment
\* window.__TAURI__ is declared `__TAURI__?: any`
TauriGlobals == {"undefined", "null", "object"}
\* import.meta.env is declared `any`, so DEV may be missing
DevFlags == {"true", "false", "undefined"}

VARIABLES
  tauriGlobal,   \* what window.__TAURI__ holds
  dev,           \* what import.meta.env.DEV holds
  anchor,        \* whether document.getElementById('root') finds an element
  pc,            \* next statement of the module body, or "done" / "crashed"
  isTauri,       \* const isTauri (line 13)
  calls,         \* native commands issued through invoke(), in order
  call,          \* init_app: "none", "pending", "resolved", "rejected"
  reason,        \* the value init_app rejected with (None otherwise)
  reacted,       \* the promise reaction attached by .catch has been run
  mounts,        \* number of root.render() calls
  toasterProps,  \* toastOptions objects handed to <Toaster>, in order
  listeners,     \* event types with a registered listener
  log,           \* console.error entries
  events,        \* history of the events the host has dispatched
  pendingUnhandled, \* rejected promises without a handler, not yet reported
  uncaught,      \* exceptions that escaped to the host
  steps          \* history of the module-body statements executed

vars == <<tauriGlobal, dev, anchor, pc, isTauri, calls, call, reason, reacted,
          mounts, toasterProps, listeners, log, events, pendingUnhandled,
          uncaught, steps>>

envVars == <<tauriGlobal, dev, anchor>>

\* ------------------------------------------------------- pure expressions
\* line 13: window.__TAURI__ !== undefined
IsTauriLoose(g) == g # "null"
IsTauri(g) == g # "undefined"

\* JavaScript truthiness of import.meta.env.DEV
Truthy(d) == d = "true"

\* line 58: if (!import.meta.env.DEV)
GuardOnlyWhenFalse(d) == d = "false"
ShouldGuardContextMenu(d) == ~Truthy(d)

\* lines 32-51: the toastOptions object literal
toastOptionsSameAccent ==
  [duration |-> 4000,
   style |-> [background |-> "#1e293b", color |-> "#f1f5f9",
              border |-> "1px solid #334155"],
   success |-> [iconTheme |-> [primary |-> "#10b981", secondary |-> "#f1f5f9"]],
   error |-> [iconTheme |-> [primary |-> "#10b981", secondary |-> "#f1f5f9"]]]
toastOptions ==
  [duration |-> 4000,
   style |-> [background |-> "#1e293b", color |-> "#f1f5f9",
              border |-> "1px solid #334155"],
   success |-> [iconTheme |-> [primary |-> "#10b981", secondary |-> "#f1f5f9"]],
   error |-> [iconTheme |-> [primary |-> "#ef4444", secondary |-> "#f1f5f9"]]]

\* What a callback does, as the list of its effects.
NoEffect ==
  [log |-> <<>>, preventDefault |-> FALSE, throws |-> FALSE,
   invoke |-> FALSE, render |-> FALSE, removes |-> {}]

\* lines 17-19: (error) => { console.error('Failed to initialize Tauri app:', error); }
CatchHandlerRethrow(error) ==
  [NoEffect EXCEPT !.log = <<[prefix |-> "Failed to initialize Tauri app:",
                              value |-> error]>>,
                   !.throws = TRUE]
CatchHandlerRetry(error) ==
  [NoEffect EXCEPT !.log = <<[prefix |-> "Failed to initialize Tauri app:",
                              value |-> error]>>,
                   !.invoke = TRUE]
CatchHandler(error) ==
  [NoEffect EXCEPT !.log = <<[prefix |-> "Failed to initialize Tauri app:",
                              value |-> error]>>]

\* line 17: .catch(...) reacts to a rejection only; a fulfilment passes through
FinallyFires(c) == c \in {"resolved", "rejected"}
CatchFires(c) == c = "rejected"

\* lines 15-20: the call is not awaited, the module body goes on whatever
\* the state of the call
InitAwaited(c) == c = "pending"
InitBlocksStartup(c) == FALSE

\* line 59: (e) => e.preventDefault()
ContextMenuListener(event) == [NoEffect EXCEPT !.preventDefault = TRUE]

\* lines 63-65: (event) => { console.error('Global error:', event.error); }
ErrorListenerPreventDefault(event) ==
  [NoEffect EXCEPT !.log = <<[prefix |-> "Global error:",
                              value |-> event.error]>>,
                   !.preventDefault = TRUE]
ErrorListener(event) ==
  [NoEffect EXCEPT !.log = <<[prefix |-> "Global error:",
                              value |-> event.error]>>]

\* lines 67-69: (event) => { console.error('Unhandled promise rejection:', event.reason); }
RejectionListenerWrongField(event) ==
  [NoEffect EXCEPT !.log = <<[prefix |-> "Unhandled promise rejection:",
                              value |-> event.error]>>]
RejectionListener(event) ==
  [NoEffect EXCEPT !.log = <<[prefix |-> "Unhandled promise rejection:",
                              value |-> event.reason]>>]

\* the listener registered for each event type (lines 59, 63, 67)
ListenerFor(type, event) ==
  CASE type = "contextmenu" -> ContextMenuListener(event)
    [] type = "error" -> ErrorListener(event)
    [] type = "unhandledrejection" -> RejectionListener(event)

\* lines 13-69: the statements of the module body, in source order
ProgramOrderGuardsFirst ==
  <<"detect", "init", "contextmenu", "error", "unhandledrejection",
    "createRoot", "render">>
ProgramOrder ==
  <<"detect", "init", "createRoot", "render", "contextmenu", "error",
    "unhandledrejection">>

IndexOf(s) == CHOOSE i \in 1..Len(ProgramOrder) : ProgramOrder[i] = s
After(s) == IF IndexOf(s) = Len(ProgramOrder) THEN "done"
            ELSE ProgramOrder[IndexOf(s) + 1]

\* the module body is over: the event loop may run other tasks
StackEmpty == pc \in {"done", "crashed"}

\* ---------------------------------------------------------------- state
Init ==
  /\ tauriGlobal \in TauriGlobals
  /\ dev \in DevFlags
  /\ anchor \in BOOLEAN
  /\ pc = ProgramOrder[1]
  /\ isTauri = FALSE
  /\ calls = <<>>
  /\ call = "none"
  /\ reason = None
  /\ reacted = FALSE
  /\ mounts = 0
  /\ toasterProps = <<>>
  /\ listeners = {}
  /\ log = <<>>
  /\ events = <<>>
  /\ pendingUnhandled = <<>>
  /\ uncaught = <<>>
  /\ steps = <<>>

Budget == Len(events) + Len(pendingUnhandled)

\* console.error entries of a callback, tagged with what caused them:
\* 0 for the init_app catch handler, the event's index in `events` otherwise
Tagged(entries, cause) ==
  [i \in 1..Len(entries) |->
     [prefix |-> entries[i].prefix, value |-> entries[i].value, cause |-> cause]]

\* The effects of a callback other than its log entries and its exception.
ApplyEffects(eff) ==
  /\ calls' = IF eff.invoke THEN Append(calls, "init_app") ELSE calls
  /\ mounts' = IF eff.render THEN mounts + 1 ELSE mounts
  /\ listeners' = listeners \ eff.removes

\* EventTarget.dispatchEvent: the listener registered for the type, if any,
\* runs synchronously; an exception it throws is reported to the host.
Dispatch(type, error, rsn, origin) ==
  LET ev == [type |-> type, error |-> error, reason |-> rsn]
      eff == IF type \in listeners THEN ListenerFor(type, ev) ELSE NoEffect
      id == Len(events) + 1
  IN /\ events' = Append(events,
                     [type |-> type, error |-> error, reason |-> rsn,
                      origin |-> origin, at |-> pc,
                      defaultPrevented |-> eff.preventDefault])
     /\ log' = log \o Tagged(eff.log, id)
     /\ uncaught' = IF eff.throws THEN Append(uncaught, "listener") ELSE uncaught
     /\ ApplyEffects(eff)

\* ------------------------------------------------ the module body
\* line 13
Detect ==
  /\ pc = "detect"
  /\ isTauri' = IsTauri(tauriGlobal)
  /\ pc' = After("detect")
  /\ steps' = Append(steps, "detect")
  /\ UNCHANGED <<envVars, calls, call, reason, reacted, mounts, toasterProps,
                 listeners, log, events, pendingUnhandled, uncaught>>

\* lines 15-20: invoke('init_app').catch(...), one expression statement
InitApp ==
  /\ pc = "init"
  /\ IF isTauri
       THEN /\ calls' = Append(calls, "init_app")
            /\ call' = "pending"
       ELSE UNCHANGED <<calls, call>>
  /\ pc' = After("init")
  /\ steps' = Append(steps, "init")
  /\ UNCHANGED <<envVars, isTauri, reason, reacted, mounts, toasterProps,
                 listeners, log, events, pendingUnhandled, uncaught>>

\* lines 22-24: createRoot throws when the anchor is absent; the exception
\* ends the module body and the host reports it as an error event
CreateRoot ==
  /\ pc = "createRoot"
  /\ ~InitBlocksStartup(call)
  /\ steps' = Append(steps, "createRoot")
  /\ IF anchor
       THEN /\ pc' = After("createRoot")
            /\ UNCHANGED <<calls, mounts, listeners, log, events, uncaught>>
       ELSE /\ pc' = "crashed"
            /\ LET ev == [type |-> "error", error |-> MountError, reason |-> None]
                    eff == IF "error" \in listeners
                             THEN ListenerFor("error", ev) ELSE NoEffect
               IN /\ events' = Append(events,
                        [type |-> "error", error |-> MountError, reason |-> None,
                         origin |-> "startup", at |-> pc,
                         defaultPrevented |-> eff.preventDefault])
                  /\ log' = log \o Tagged(eff.log, Len(events) + 1)
                  /\ uncaught' = Append(uncaught, "createRoot")
                  /\ ApplyEffects(eff)
  /\ UNCHANGED <<envVars, isTauri, call, reason, reacted, toasterProps,
                 pendingUnhandled>>

\* lines 26-55
Render ==
  /\ pc = "render"
  /\ ~InitBlocksStartup(call)
  /\ mounts' = mounts + 1
  /\ toasterProps' = Append(toasterProps, toastOptions)
  /\ pc' = After("render")
  /\ steps' = Append(steps, "render")
  /\ UNCHANGED <<envVars, isTauri, calls, call, reason, reacted, listeners,
                 log, events, pendingUnhandled, uncaught>>

\* lines 58-60
GuardContextMenu ==
  /\ pc = "contextmenu"
  /\ ~InitBlocksStartup(call)
  /\ listeners' = IF ShouldGuardContextMenu(dev)
                    THEN listeners \cup {"contextmenu"} ELSE listeners
  /\ pc' = After("contextmenu")
  /\ steps' = Append(steps, "contextmenu")
  /\ UNCHANGED <<envVars, isTauri, calls, call, reason, reacted, mounts,
                 toasterProps, log, events, pendingUnhandled, uncaught>>

\* lines 63-65
RegisterErrorListener ==
  /\ pc = "error"
  /\ ~InitBlocksStartup(call)
  /\ listeners' = listeners \cup {"error"}
  /\ pc' = After("error")
  /\ steps' = Append(steps, "error")
  /\ UNCHANGED <<envVars, isTauri, calls, call, reason, reacted, mounts,
                 toasterProps, log, events, pendingUnhandled, uncaught>>

\* lines 67-69
RegisterRejectionListener ==
  /\ pc = "unhandledrejection"
  /\ ~InitBlocksStartup(call)
  /\ listeners' = listeners \cup {"unhandledrejection"}
  /\ pc' = After("unhandledrejection")
  /\ steps' = Append(steps, "unhandledrejection")
  /\ UNCHANGED <<envVars, isTauri, calls, call, reason, reacted, mounts,
                 toasterProps, log, events, pendingUnhandled, uncaught>>

StartupStep ==
  \/ Detect
  \/ InitApp
  \/ CreateRoot
  \/ Render
  \/ GuardContextMenu
  \/ RegisterErrorListener
  \/ RegisterRejectionListener

\* ------------------------------------------------ the host
\* the backend answers init_app, at any time after the call was issued
BackendResolves ==
  /\ call = "pending"
  /\ call' = "resolved"
  /\ UNCHANGED <<envVars, pc, isTauri, calls, reason, reacted, mounts,
                 toasterProps, listeners, log, events, pendingUnhandled,
                 uncaught, steps>>

BackendRejects ==
  /\ call = "pending"
  /\ \E e \in ErrorValues :
       /\ call' = "rejected"
       /\ reason' = e
  /\ UNCHANGED <<envVars, pc, isTauri, calls, reacted, mounts, toasterProps,
                 listeners, log, events, pendingUnhandled, uncaught, steps>>

\* line 17: the reaction attached by .catch runs as a microtask once the
\* promise is settled and no script is running; if the handler throws, the
\* promise .catch returned is rejected and nothing handles it
SettleReaction ==
  /\ StackEmpty
  /\ call \in {"resolved", "rejected"}
  /\ ~reacted
  /\ reacted' = TRUE
  /\ LET eff == IF CatchFires(call) THEN CatchHandler(reason) ELSE NoEffect
     IN /\ log' = log \o Tagged(eff.log, 0)
        /\ pendingUnhandled' =
             IF eff.throws
               THEN Append(pendingUnhandled,
                           [reason |-> reason, origin |-> "init_app"])
               ELSE pendingUnhandled
        /\ ApplyEffects(eff)
  /\ UNCHANGED <<envVars, pc, isTauri, call, reason, toasterProps, events,
                 uncaught, steps>>

\* application code (App.tsx and below) leaves a rejected promise unhandled;
\* it runs while the imports are evaluated or in a later task
AppRejects ==
  /\ pc = ProgramOrder[1] \/ StackEmpty
  /\ Budget < MaxEvents
  /\ \E e \in ErrorValues :
       pendingUnhandled' = Append(pendingUnhandled,
                                  [reason |-> e, origin |-> "app"])
  /\ UNCHANGED <<envVars, pc, isTauri, calls, call, reason, reacted, mounts,
                 toasterProps, listeners, log, events, uncaught, steps>>

\* the host reports an unhandled rejection once the running task is over
NotifyRejection ==
  /\ StackEmpty
  /\ pendingUnhandled # <<>>
  /\ Dispatch("unhandledrejection", None, Head(pendingUnhandled).reason,
              Head(pendingUnhandled).origin)
  /\ pendingUnhandled' = Tail(pendingUnhandled)
  /\ UNCHANGED <<envVars, pc, isTauri, call, reason, reacted, toasterProps,
                 steps>>

\* application code throws in a later task
AppThrows ==
  /\ StackEmpty
  /\ Budget < MaxEvents
  /\ \E e \in ErrorValues : Dispatch("error", e, None, "app")
  /\ UNCHANGED <<envVars, pc, isTauri, call, reason, reacted, toasterProps,
                 pendingUnhandled, steps>>

\* the user asks for the context menu
ContextMenu ==
  /\ StackEmpty
  /\ Budget < MaxEvents
  /\ Dispatch("contextmenu", None, None, "user")
  /\ UNCHANGED <<envVars, pc, isTauri, call, reason, reacted, toasterProps,
                 pendingUnhandled, steps>>

Next ==
  \/ StartupStep
  \/ BackendResolves
  \/ BackendRejects
  \/ SettleReaction
  \/ AppRejects
  \/ NotifyRejection
  \/ AppThrows
  \/ ContextMenu

Spec == Init /\ [][Next]_vars

\* The module body runs to its end or to its exception; the event loop runs
\* queued microtasks and reports queued rejections.  Nothing obliges the
\* backend to answer.
FairSpec ==
  /\ Spec
  /\ WF_vars(StartupStep)
  /\ WF_vars(SettleReaction)
  /\ WF_vars(NotifyRejection)

\* ---------------------------------------------------------------- properties
\* the host bridge global is there (window.__TAURI__ is not undefined)
BridgePresent == tauriGlobal # "undefined"

EntriesOf(i) == {j \in 1..Len(log) : log[j].cause = i}

\* log entries produced for the init_app call: by its catch handler, or by a
\* global listener handling an event that stems from the call
InitEntries ==
  {j \in 1..Len(log) :
     \/ log[j].cause = 0
     \/ /\ log[j].cause > 0
        /\ events[log[j].cause].origin = "init_app"}

GuardsRegistered == {"error", "unhandledrejection"} \subseteq listeners

\* C1: when window.__TAURI__ is undefined, init_app is never issued, at
\* startup or later.
C1_NoBridgeNoInit ==
  tauriGlobal = "undefined" => (calls = <<>> /\ call = "none")

C1_Witness ==
  /\ tauriGlobal = "undefined"
  /\ pc = "done"
  /\ Len(events) = MaxEvents
  /\ calls = <<>>

\* C2 as stated: when the bridge is present and init_app rejects with E,
\* exactly one log entry refers to E and no exception escapes the startup
\* sequence.
C2_Original ==
  (BridgePresent /\ call = "rejected") =>
    /\ Cardinality(InitEntries) = (IF reacted THEN 1 ELSE 0)
    /\ uncaught = <<>>
    /\ pc # "crashed"

C2_Safety ==
  (BridgePresent /\ call = "rejected") =>
    /\ Cardinality(InitEntries) = (IF reacted THEN 1 ELSE 0)
    /\ \A j \in InitEntries :
         /\ log[j].cause = 0
         /\ log[j].prefix = "Failed to initialize Tauri app:"
         /\ log[j].value = reason
    /\ \A k \in 1..Len(uncaught) : uncaught[k] = "createRoot"
    /\ anchor => (uncaught = <<>> /\ pc # "crashed")
    /\ (anchor /\ pc = "done") => (mounts = 1 /\ GuardsRegistered)

\* C2 (amended): when the bridge is present and init_app rejects with E,
\* exactly one log entry refers to E over the whole execution, written by the
\* catch handler, and the rejection makes no exception escape; when the
\* anchor element exists no exception escapes the startup sequence at all,
\* and mount and listener registration still happen.
C2_RejectionLoggedOnce ==
  /\ []C2_Safety
  /\ (BridgePresent /\ call = "rejected") ~> (Cardinality(InitEntries) = 1)
  /\ (BridgePresent /\ call = "rejected" /\ anchor)
       ~> (pc = "done" /\ mounts = 1 /\ GuardsRegistered)

C2_Witness ==
  /\ BridgePresent
  /\ anchor
  /\ call = "rejected"
  /\ reacted
  /\ pc = "done"
  /\ Cardinality(InitEntries) = 1
  /\ Len(log) > 1

\* C3: when the bridge is present and init_app resolves, no log entry is ever
\* produced for it, by the catch handler or by a global listener.
C3_ResolveSilent ==
  (BridgePresent /\ call = "resolved") => InitEntries = {}

C3_Witness ==
  /\ BridgePresent
  /\ call = "resolved"
  /\ reacted
  /\ Len(log) > 0
  /\ InitEntries = {}

ContextMenuAfterStartup ==
  {i \in 1..Len(events) : events[i].type = "contextmenu" /\ events[i].at = "done"}

C4_Outcome ==
  \A i \in ContextMenuAfterStartup :
    events[i].defaultPrevented = (dev # "true")

\* C4: after startup has completed, every context-menu event is suppressed
\* when import.meta.env.DEV is falsy and none is when it is truthy; the
\* decision is taken once and stays for the lifetime of the process.
C4_ContextMenu ==
  /\ []C4_Outcome
  /\ [][pc = "done" => (pc' = "done" /\ listeners' = listeners /\ dev' = dev)]_vars

C4_Witness ==
  /\ dev = "undefined"
  /\ Cardinality(ContextMenuAfterStartup) >= 2
  /\ \A i \in ContextMenuAfterStartup : events[i].defaultPrevented

LoggedOnce(i) ==
  /\ Cardinality(EntriesOf(i)) = 1
  /\ \A j \in EntriesOf(i) :
       IF events[i].type = "error"
         THEN log[j].prefix = "Global error:" /\ log[j].value = events[i].error
         ELSE /\ log[j].prefix = "Unhandled promise rejection:"
              /\ log[j].value = events[i].reason

\* C5 as stated: any error thrown after startup, and any rejected
\* asynchronous operation anywhere in the process, gets exactly one log entry.
C5_Original ==
  \A i \in 1..Len(events) :
    (\/ events[i].type = "error" /\ events[i].at = "done"
     \/ events[i].type = "unhandledrejection") => LoggedOnce(i)

\* C5 (amended): once the startup sequence has completed, every error event
\* and every unhandledrejection event gets exactly one log entry (the error
\* object, respectively the rejection reason), and the handlers never throw.
C5_LoggedOnceAfterStartup ==
  /\ \A i \in 1..Len(events) :
       (events[i].type \in {"error", "unhandledrejection"} /\ events[i].at = "done")
         => LoggedOnce(i)
  /\ \A k \in 1..Len(uncaught) : uncaught[k] # "listener"

C5_Witness ==
  /\ pc = "done"
  /\ \E i, k \in 1..Len(events) :
       /\ events[i].type = "error"
       /\ events[k].type = "unhandledrejection"
       /\ LoggedOnce(i)
       /\ LoggedOnce(k)

C6_Config ==
  /\ Len(toasterProps) <= 1
  /\ \A i \in 1..Len(toasterProps) :
       /\ toasterProps[i].duration = 4000
       /\ toasterProps[i].success.iconTheme.primary
            # toasterProps[i].error.iconTheme.primary
       /\ toasterProps[i].success.iconTheme.secondary
            = toasterProps[i].error.iconTheme.secondary

\* C6: the toast configuration handed to the notification renderer has
\* duration 4000, different success and error accent colours and one shared
\* secondary colour; it is built once and nothing changes it afterwards.
C6_ToastConfig ==
  /\ []C6_Config
  /\ [][toasterProps # <<>> => toasterProps' = toasterProps]_vars

C6_Witness ==
  /\ Len(toasterProps) = 1
  /\ pc = "done"
  /\ Len(events) > 0
  /\ reacted

\* C7: init_app is not awaited: when the anchor element exists, mount and
\* listener registration are reached in every execution, whether the call
\* resolves, rejects or never settles.
C7_StartupNotBlocked ==
  anchor ~> (pc = "done" /\ mounts = 1 /\ GuardsRegistered)

C7_Witness ==
  /\ anchor
  /\ pc = "done"
  /\ call = "pending"
  /\ mounts = 1
  /\ GuardsRegistered

\* C8: when the bridge is present exactly one init_app request is issued: at
\* the init statement, never again, not after a rejection and not by a
\* listener.
C8_SingleInit ==
  BridgePresent =>
    calls = (IF pc \in {"detect", "init"} THEN <<>> ELSE <<"init_app">>)

C8_Witness ==
  /\ BridgePresent
  /\ call = "rejected"
  /\ reacted
  /\ Len(events) >= 2
  /\ calls = <<"init_app">>

\* an event of the given kind has just been handled by a registered listener
Handled(types) ==
  /\ Len(events') = Len(events) + 1
  /\ events'[Len(events')].type \in types
  /\ events'[Len(events')].type \in listeners

\* C9: the error and unhandledrejection listeners are terminal sinks: a
\* handling appends one log entry and nothing else: no exception, no
\* suppressed default action, no init_app, no re-mount, no change of the
\* registered listeners.
C9_TerminalSinks ==
  [][Handled({"error", "unhandledrejection"}) =>
       /\ Len(log') = Len(log) + 1
       /\ SubSeq(log', 1, Len(log)) = log
       /\ ~events'[Len(events')].defaultPrevented
       /\ uncaught' = uncaught
       /\ calls' = calls
       /\ call' = call
       /\ mounts' = mounts
       /\ toasterProps' = toasterProps
       /\ listeners' = listeners
       /\ pc' = pc]_vars

C9_Witness ==
  /\ Len(log) >= 2
  /\ \E i, k \in 1..Len(events) :
       /\ events[i].type = "error"
       /\ events[k].type = "unhandledrejection"
       /\ EntriesOf(i) # {}
       /\ EntriesOf(k) # {}
  /\ mounts = 1
  /\ calls = <<"init_app">>

ClaimedOrder ==
  <<"detect", "init", "createRoot", "render", "contextmenu", "error",
    "unhandledrejection">>

\* C10: the statements run in the order detection, init_app dispatch, mount,
\* context-menu guard, error listener, rejection listener; when the anchor is
\* absent the sequence stops at the mount: no listener is ever registered, so
\* no event is logged or suppressed, while a dispatched init_app still has its
\* rejection logged exactly once by its own catch handler.
C10_OrderAndAbort ==
  /\ Len(steps) <= Len(ClaimedOrder)
  /\ steps = SubSeq(ClaimedOrder, 1, Len(steps))
  /\ pc = "done" => steps = ClaimedOrder
  /\ ~anchor =>
       /\ listeners = {}
       /\ mounts = 0
       /\ Len(steps) <= 3
       /\ pc \in {"detect", "init", "createRoot", "crashed"}
       /\ \A i \in 1..Len(events) :
            EntriesOf(i) = {} /\ ~events[i].defaultPrevented
       /\ (BridgePresent /\ pc = "crashed") => calls = <<"init_app">>
       /\ (call = "rejected" /\ reacted) =>
            /\ Len(log) = 1
            /\ log[1].cause = 0
            /\ log[1].value = reason

C10_Witness ==
  /\ ~anchor
  /\ pc = "crashed"
  /\ dev = "false"
  /\ call = "rejected"
  /\ reacted
  /\ Len(log) = 1
  /\ \E i, k \in 1..Len(events) :
       /\ events[i].type = "contextmenu"
       /\ events[k].type = "unhandledrejection"
====
